---- MODULE Spec2Model ----
(***************************************************************************)
(* Health-check engine of src/main.py: the endpoint/host model built by    *)
(* parse_file, the probe Endpoint.is_up, the aggregation                   *)
(* Host.perform_health_check and the sched-driven health_check_runner.     *)
(* Time is counted in milliseconds.                                        *)
(***************************************************************************)
EXTENDS Integers, Sequences, FiniteSets, TLC

\* ------------------------------------------------------------------ bounds
MaxRecords == 3      \* longest input list the model is built from
MaxRunRecords == 2   \* longest input list the rounds are run on
MaxRounds == 2       \* rounds the scheduler is followed for
MaxJitter == 1       \* largest overshoot (ms) of one time.sleep
MaxEndpoints == 32   \* largest Host perform_health_check is called on by itself

\* --------------------------------------------------------------- constants
TIMEOUT_IN_MS == 500
HEALTH_CHECK_DELAY == 15

None == "<None>"        \* Python's None

\* ---------------------------------------------------------- input records
\* URLs as urlparse sees them: scheme, netloc, path.
Url(netloc, path) == [scheme |-> "http", netloc |-> netloc, path |-> path]

\* A record is a dict: a function on the keys it has.
RecordPool ==
    { [name |-> "e1", url |-> Url("a.com", "/")],
      [name |-> "e2", url |-> Url("A.com:8080", "/x"), method |-> "post"],
      [name |-> "e3", url |-> Url("b.com", "/"), method |-> "HEAD"],
      [name |-> "e4", url |-> Url("b.com", "/y"), method |-> "PATCH"],
      [name |-> "e5", url |-> Url("", "/local"), method |-> "GET"],
      [url |-> Url("a.com", "/"), method |-> "GET"],
      [name |-> "e7", method |-> "GET"] }

RECURSIVE SeqsUpTo(_, _)
SeqsUpTo(S, n) ==
    IF n = 0 THEN { <<>> }
    ELSE LET shorter == SeqsUpTo(S, n - 1)
         IN  shorter \cup { Append(s, x) : s \in { t \in shorter : Len(t) = n - 1 }, x \in S }

\* ------------------------------------------------------------ conversions
\* str.upper on the method strings that occur.
Upper(s) ==
    CASE s = "get" -> "GET"
      [] s = "post" -> "POST"
      [] s = "put" -> "PUT"
      [] s = "delete" -> "DELETE"
      [] s = "head" -> "HEAD"
      [] s = "options" -> "OPTIONS"
      [] s = "patch" -> "PATCH"
      [] OTHER -> s

\* urlparse(url).hostname: the netloc without its port, lower-cased; None
\* when the URL has no netloc.
Hostname(url) ==
    CASE url.netloc = "" -> None
      [] url.netloc = "a.com" -> "a.com"
      [] url.netloc = "A.com:8080" -> "a.com"
      [] url.netloc = "b.com" -> "b.com"
      [] OTHER -> url.netloc

\* -------------------------------------------------------------- the model
\* Endpoint.__init__; idx is the object's identity (its place in the input).
Endpoint(idx, name, url, method, body, headers) ==
    [idx |-> idx, name |-> name, url |-> url, method |-> Upper(method),
     body |-> body, headers |-> headers]

\* data[key] raises KeyError for a missing key
HasKey(data, key) == key \in DOMAIN data

\* dict.get(key, default)
Get(data, key, default) == IF HasKey(data, key) THEN data[key] ELSE default

\* Endpoint.from_dict, defined when name and url are present
from_dict(idx, data) ==
    Endpoint(idx, data["name"], data["url"], Get(data, "method", "GET"),
             Get(data, "body", None), Get(data, "headers", None))

from_dict_raises(data) == ~HasKey(data, "name") \/ ~HasKey(data, "url")

\* read_endpoints: the records in file order, each through from_dict
read_endpoints(data) == [i \in 1..Len(data) |-> from_dict(i, data[i])]

read_endpoints_raises(data) == \E i \in 1..Len(data) : from_dict_raises(data[i])

\* Host.__init__
Host(hostname) == [hostname |-> hostname, endpoints |-> <<>>]

\* hosts_map is a dict, which keeps its keys in insertion order: a sequence
\* of Hosts with distinct hostnames.
HostIndex(hosts_map, hostname) ==
    IF \E k \in 1..Len(hosts_map) : hosts_map[k].hostname = hostname
    THEN CHOOSE k \in 1..Len(hosts_map) : hosts_map[k].hostname = hostname
    ELSE 0

\* the loop of parse_file without its membership test: a Host is made for
\* every endpoint and takes the place of the one the dict held
AddEndpointOverwrite(hosts_map, endpoint) ==
    LET hostname == Hostname(endpoint.url)
        k == HostIndex(hosts_map, hostname)
        fresh == [Host(hostname) EXCEPT !.endpoints = <<endpoint>>]
    IN  IF k = 0 THEN Append(hosts_map, fresh) ELSE [hosts_map EXCEPT ![k] = fresh]

\* the loop of parse_file putting the endpoint first in its Host's list
AddEndpointPrepend(hosts_map, endpoint) ==
    LET hostname == Hostname(endpoint.url)
        withHost == IF HostIndex(hosts_map, hostname) = 0
                    THEN Append(hosts_map, Host(hostname))
                    ELSE hosts_map
        k == HostIndex(withHost, hostname)
    IN  [withHost EXCEPT ![k].endpoints = <<endpoint>> \o @]

\* the loop of parse_file appending only to a Host that exists already
AddEndpointElse(hosts_map, endpoint) ==
    LET hostname == Hostname(endpoint.url)
        k == HostIndex(hosts_map, hostname)
    IN  IF k = 0
        THEN Append(hosts_map, Host(hostname))
        ELSE [hosts_map EXCEPT ![k].endpoints = Append(@, endpoint)]

\* one pass of the loop of parse_file
AddEndpoint(hosts_map, endpoint) ==
    LET hostname == Hostname(endpoint.url)
        withHost == IF HostIndex(hosts_map, hostname) = 0
                    THEN Append(hosts_map, Host(hostname))
                    ELSE hosts_map
        k == HostIndex(withHost, hostname)
    IN  [withHost EXCEPT ![k].endpoints = Append(@, endpoint)]

RECURSIVE GroupFrom(_, _, _)
GroupFrom(endpoints, i, hosts_map) ==
    IF i > Len(endpoints) THEN hosts_map
    ELSE GroupFrom(endpoints, i + 1, AddEndpoint(hosts_map, endpoints[i]))

\* parse_file: list(hosts_map.values())
parse_file(data) == GroupFrom(read_endpoints(data), 1, <<>>)

\* -------------------------------------------------------------- the prober
\* What the probed server does with one request: a transport failure, or a
\* response with a status after latency ms.
Server(fail, latency, status) == [fail |-> fail, latency |-> latency, status |-> status]

Servers ==
    { Server("none", l, s) : l \in {499, 501}, s \in {199, 200, 299, 300} }
    \cup { Server(f, 499, 0) : f \in {"connect", "dns", "tls", "other"} }

\* the dispatch of is_up on self.method (None: the else branch, which raises)
ReqFn(method) ==
    CASE method = "GET" -> "requests.get"
      [] method = "POST" -> "requests.post"
      [] method = "PUT" -> "requests.put"
      [] method = "DELETE" -> "requests.delete"
      [] method = "HEAD" -> "requests.head"
      [] method = "OPTIONS" -> "requests.options"
      [] OTHER -> None

\* req_fn(url, headers=, data=, timeout=TIMEOUT_IN_S): the response, or the
\* exception requests raises
Send(req_fn, endpoint, server) ==
    IF server.fail # "none"
    THEN [kind |-> "Exception", cause |-> server.fail]
    ELSE IF server.latency >= TIMEOUT_IN_MS
         THEN [kind |-> "Timeout"]
         ELSE [kind |-> "Response", status_code |-> server.status]

\* how long the call to req_fn takes
Duration(server) ==
    IF server.latency >= TIMEOUT_IN_MS THEN TIMEOUT_IN_MS ELSE server.latency

\* how a call ends: with a value, or with an exception leaving it
Return(value) == [raised |-> None, value |-> value]
Raise(exception) == [raised |-> exception, value |-> FALSE]

\* is_up without its second except clause: what req_fn raises, other than
\* Timeout, leaves the call
is_up_propagating(endpoint, server) ==
    IF ReqFn(endpoint.method) = None
    THEN Raise("Exception: Invalid HTTP method")
    ELSE LET res == Send(ReqFn(endpoint.method), endpoint, server)
         IN  CASE res.kind = "Response" ->
                    IF res.status_code >= 200 /\ res.status_code < 300
                    THEN Return(TRUE)
                    ELSE Return(FALSE)
               [] res.kind = "Timeout" -> Return(FALSE)
               [] OTHER -> Raise(res.cause)

\* is_up with the upper end of the status range included
is_up_through_300(endpoint, server) ==
    IF ReqFn(endpoint.method) = None
    THEN Raise("Exception: Invalid HTTP method")
    ELSE LET res == Send(ReqFn(endpoint.method), endpoint, server)
         IN  CASE res.kind = "Response" ->
                    IF res.status_code >= 200 /\ res.status_code <= 300
                    THEN Return(TRUE)
                    ELSE Return(FALSE)
               [] res.kind = "Timeout" -> Return(FALSE)
               [] OTHER -> Return(FALSE)

\* Endpoint.is_up: the dispatch raises for a method outside the six; the
\* two except clauses swallow what req_fn raises and fall through to
\* return False
is_up(endpoint, server) ==
    IF ReqFn(endpoint.method) = None
    THEN Raise("Exception: Invalid HTTP method")
    ELSE LET res == Send(ReqFn(endpoint.method), endpoint, server)
         IN  CASE res.kind = "Response" ->
                    IF res.status_code >= 200 /\ res.status_code < 300
                    THEN Return(TRUE)
                    ELSE Return(FALSE)
               [] res.kind = "Timeout" -> Return(FALSE)
               [] OTHER -> Return(FALSE)

\* ----------------------------------------------------------- the aggregator
\* the percentage with a tie rounded up
PercentageHalfUp(up_endpoints, n) == (2 * up_endpoints * 100 * 100 + n) \div (2 * n)

\* round(up_endpoints * 100 / n, 2), in hundredths: Python rounds the float
\* quotient to the nearest hundredth and a tie to the even one.
Percentage(up_endpoints, n) ==
    LET num == up_endpoints * 100 * 100
        q == num \div n
        r == num % n
    IN  IF 2 * r < n THEN q
        ELSE IF 2 * r > n THEN q + 1
        ELSE IF q % 2 = 0 THEN q ELSE q + 1

\* str() of the rounded float: the integer part, then one fraction digit, or
\* two when the second is not zero
FloatStr(hundredths) ==
    LET d1 == (hundredths % 100) \div 10
        d2 == hundredths % 10
    IN  [int |-> hundredths \div 100, frac |-> IF d2 = 0 THEN <<d1>> ELSE <<d1, d2>>]

\* the f-string of perform_health_check
Summary(hostname, percentage) ==
    <<hostname, " has ", FloatStr(percentage), "% availability percentage">>

\* ---------------------------------------------------------------- the state
VARIABLES
    data,          \* the records yaml.safe_load returned
    pc,            \* where the process is
    error,         \* the exception that ended the process, None while it runs
    hosts,         \* the list parse_file returned
    queue,         \* scheduler._queue: the pending events, by time
    now,           \* time.time(), in ms since the scheduler was created
    event,         \* the event whose action is running
    round,         \* calls of health_check_runner so far
    hi,            \* the host the list comprehension of the runner is at
    ei,            \* the endpoint the loop of perform_health_check is at
    up_endpoints,  \* the counter of perform_health_check
    logs,          \* the list the runner builds
    li,            \* the log the print loop is at
    out,           \* the lines this call of the runner has printed, in order
    last,          \* the last is_up call of the perform_health_check call in
                   \* progress: endpoint idx, server behaviour, result
    requests,      \* requests sent this round, per endpoint idx
    ups,           \* is_up calls that returned True this round, per Host
    started        \* time.time() when the latest call of the runner began

vars == <<data, pc, error, hosts, queue, now, event, round, hi, ei, up_endpoints,
          logs, li, out, last, requests, ups, started>>

DelayMs == HEALTH_CHECK_DELAY * 1000

NoEvent == [time |-> -1, priority |-> 0]
NoProbe == [idx |-> 0, server |-> Server("none", 0, 0), up |-> FALSE]

\* scheduler.enter(delay, priority, ...): the event at time.time() + delay,
\* kept in time order behind the events already due then
Enter(q, t, delay, priority) ==
    LET ev == [time |-> t + delay, priority |-> priority]
        before == SelectSeq(q, LAMBDA e : e.time < ev.time
                                          \/ (e.time = ev.time /\ e.priority <= ev.priority))
        after == SelectSeq(q, LAMBDA e : ~(e.time < ev.time
                                           \/ (e.time = ev.time /\ e.priority <= ev.priority)))
    IN  before \o <<ev>> \o after

\* the runner without its line 126
RescheduleNever(q, t) == q

\* the runner passing the delay as if it were in the clock's unit
RescheduleShort(q, t) == Enter(q, t, HEALTH_CHECK_DELAY, 1)

\* the runner entering its next call twice
RescheduleTwice(q, t) == Enter(Enter(q, t, DelayMs, 1), t, DelayMs, 1)

\* health_check_runner, line 126: the next call, HEALTH_CHECK_DELAY from now
Reschedule(q, t) == Enter(q, t, DelayMs, 1)

Init ==
    /\ data \in SeqsUpTo(RecordPool, MaxRunRecords)
    /\ pc = "main"
    /\ error = None
    /\ hosts = <<>>
    /\ queue = <<>>
    /\ now = 0
    /\ event = NoEvent
    /\ round = 0
    /\ hi = 0
    /\ ei = 0
    /\ up_endpoints = 0
    /\ logs = <<>>
    /\ li = 0
    /\ out = <<>>
    /\ last = NoProbe
    /\ requests = <<>>
    /\ ups = <<>>
    /\ started = 0

\* main, line 146: hosts = parse_file(input_file_path); a record without
\* name or url ends the process with KeyError
main_parse_file ==
    /\ pc = "main"
    /\ IF read_endpoints_raises(data)
       THEN /\ pc' = "crashed"
            /\ error' = "KeyError"
            /\ UNCHANGED hosts
       ELSE /\ pc' = "start"
            /\ hosts' = parse_file(data)
            /\ UNCHANGED error
    /\ UNCHANGED <<data, queue, now, event, round, hi, ei, up_endpoints, logs, li,
                   out, last, requests, ups, started>>

\* main, lines 149-151: the first event at delay 0, then scheduler.run()
main_run_scheduler ==
    /\ pc = "start"
    /\ queue' = Enter(queue, now, 0, 1)
    /\ pc' = "run"
    /\ UNCHANGED <<data, error, hosts, now, event, round, hi, ei, up_endpoints, logs,
                   li, out, last, requests, ups, started>>

\* One pass of the loop of scheduler.run(): return when the queue is empty,
\* sleep until the first event is due, or pop it and call its action.
scheduler_run ==
    /\ pc = "run"
    /\ round < MaxRounds
    /\ IF queue = <<>>
       THEN /\ pc' = "exited"
            /\ UNCHANGED <<queue, now, event>>
       ELSE IF Head(queue).time > now
            THEN /\ \E jitter \in 0..MaxJitter : now' = Head(queue).time + jitter
                 /\ UNCHANGED <<pc, queue, event>>
            ELSE /\ event' = Head(queue)
                 /\ queue' = Tail(queue)
                 /\ pc' = "runner"
                 /\ UNCHANGED now
    /\ UNCHANGED <<data, error, hosts, round, hi, ei, up_endpoints, logs, li, out,
                   last, requests, ups, started>>

\* health_check_runner, line 126 and the start of the list comprehension
health_check_runner ==
    /\ pc = "runner"
    /\ queue' = Reschedule(queue, now)
    /\ round' = round + 1
    /\ logs' = <<>>
    /\ requests' = [i \in 1..Len(data) |-> 0]
    /\ hi' = 1
    /\ ei' = 1
    /\ up_endpoints' = 0
    /\ li' = 1
    /\ out' = <<>>
    /\ last' = NoProbe
    /\ ups' = [k \in 1..Len(hosts) |-> 0]
    /\ started' = now
    /\ pc' = IF hosts = <<>> THEN "print" ELSE "check"
    /\ UNCHANGED <<data, error, hosts, now, event>>

\* the loop staying on an endpoint that was down, to probe it again
probe_retrying ==
    /\ pc = "check"
    /\ ei <= Len(hosts[hi].endpoints)
    /\ \E server \in Servers :
         LET endpoint == hosts[hi].endpoints[ei]
             res == is_up(endpoint, server)
         IN  IF res.raised # None
             THEN /\ pc' = "crashed"
                  /\ error' = res.raised
                  /\ UNCHANGED <<now, ei, up_endpoints, last, requests, ups>>
             ELSE /\ last' = [idx |-> endpoint.idx, server |-> server, up |-> res.value]
                  /\ ups' = IF res.value THEN [ups EXCEPT ![hi] = @ + 1] ELSE ups
                  /\ up_endpoints' = IF res.value THEN up_endpoints + 1 ELSE up_endpoints
                  /\ now' = now + Duration(server)
                  /\ requests' = [requests EXCEPT ![endpoint.idx] = @ + 1]
                  /\ ei' = IF res.value \/ requests[endpoint.idx] >= 1 THEN ei + 1 ELSE ei
                  /\ UNCHANGED <<pc, error>>
    /\ UNCHANGED <<data, hosts, queue, event, round, hi, logs, li, out, started>>

\* perform_health_check, lines 26-28: the next endpoint's is_up()
probe ==
    /\ pc = "check"
    /\ ei <= Len(hosts[hi].endpoints)
    /\ \E server \in Servers :
         LET endpoint == hosts[hi].endpoints[ei]
             res == is_up(endpoint, server)
         IN  IF res.raised # None
             THEN /\ pc' = "crashed"
                  /\ error' = res.raised
                  /\ UNCHANGED <<now, ei, up_endpoints, last, requests, ups>>
             ELSE /\ last' = [idx |-> endpoint.idx, server |-> server, up |-> res.value]
                  /\ ups' = IF res.value THEN [ups EXCEPT ![hi] = @ + 1] ELSE ups
                  /\ up_endpoints' = IF res.value THEN up_endpoints + 1 ELSE up_endpoints
                  /\ now' = now + Duration(server)
                  /\ requests' = [requests EXCEPT ![endpoint.idx] = @ + 1]
                  /\ ei' = ei + 1
                  /\ UNCHANGED <<pc, error>>
    /\ UNCHANGED <<data, hosts, queue, event, round, hi, logs, li, out, started>>

\* perform_health_check taking the endpoints off the Host as it reports it
summarize_consuming ==
    /\ pc = "check"
    /\ ei > Len(hosts[hi].endpoints)
    /\ IF Len(hosts[hi].endpoints) = 0
       THEN /\ pc' = "crashed"
            /\ error' = "ZeroDivisionError"
            /\ UNCHANGED <<hi, ei, up_endpoints, logs, last, hosts>>
       ELSE /\ logs' = Append(logs, Summary(hosts[hi].hostname,
                                 Percentage(up_endpoints, Len(hosts[hi].endpoints))))
            /\ hosts' = [hosts EXCEPT ![hi].endpoints = <<>>]
            /\ hi' = hi + 1
            /\ ei' = 1
            /\ up_endpoints' = 0
            /\ last' = NoProbe
            /\ pc' = IF hi = Len(hosts) THEN "print" ELSE "check"
            /\ UNCHANGED error
    /\ UNCHANGED <<data, queue, now, event, round, li, out, requests, ups, started>>

\* perform_health_check keeping its counter from one call to the next
summarize_carrying ==
    /\ pc = "check"
    /\ ei > Len(hosts[hi].endpoints)
    /\ IF Len(hosts[hi].endpoints) = 0
       THEN /\ pc' = "crashed"
            /\ error' = "ZeroDivisionError"
            /\ UNCHANGED <<hi, ei, up_endpoints, logs, last>>
       ELSE /\ logs' = Append(logs, Summary(hosts[hi].hostname,
                                 Percentage(up_endpoints, Len(hosts[hi].endpoints))))
            /\ hi' = hi + 1
            /\ ei' = 1
            /\ up_endpoints' = up_endpoints
            /\ last' = NoProbe
            /\ pc' = IF hi = Len(hosts) THEN "print" ELSE "check"
            /\ UNCHANGED error
    /\ UNCHANGED <<data, hosts, queue, now, event, round, li, out, requests, ups,
                   started>>

\* perform_health_check printing its line itself, as soon as it has it
summarize_printing ==
    /\ pc = "check"
    /\ ei > Len(hosts[hi].endpoints)
    /\ IF Len(hosts[hi].endpoints) = 0
       THEN /\ pc' = "crashed"
            /\ error' = "ZeroDivisionError"
            /\ UNCHANGED <<hi, ei, up_endpoints, logs, last, out>>
       ELSE /\ logs' = Append(logs, Summary(hosts[hi].hostname,
                                 Percentage(up_endpoints, Len(hosts[hi].endpoints))))
            /\ out' = Append(out, Summary(hosts[hi].hostname,
                                 Percentage(up_endpoints, Len(hosts[hi].endpoints))))
            /\ hi' = hi + 1
            /\ ei' = 1
            /\ up_endpoints' = 0
            /\ last' = NoProbe
            /\ pc' = IF hi = Len(hosts) THEN "print" ELSE "check"
            /\ UNCHANGED error
    /\ UNCHANGED <<data, hosts, queue, now, event, round, li, requests, ups, started>>

\* perform_health_check, lines 30-32, and the comprehension's next host
summarize ==
    /\ pc = "check"
    /\ ei > Len(hosts[hi].endpoints)
    /\ IF Len(hosts[hi].endpoints) = 0
       THEN /\ pc' = "crashed"
            /\ error' = "ZeroDivisionError"
            /\ UNCHANGED <<hi, ei, up_endpoints, logs, last>>
       ELSE /\ logs' = Append(logs, Summary(hosts[hi].hostname,
                                 Percentage(up_endpoints, Len(hosts[hi].endpoints))))
            /\ hi' = hi + 1
            /\ ei' = 1
            /\ up_endpoints' = 0
            /\ last' = NoProbe
            /\ pc' = IF hi = Len(hosts) THEN "print" ELSE "check"
            /\ UNCHANGED error
    /\ UNCHANGED <<data, hosts, queue, now, event, round, li, out, requests, ups,
                   started>>

\* the print loop going through logs from its end
print_log_reversed ==
    /\ pc = "print"
    /\ li <= Len(logs)
    /\ out' = Append(out, logs[Len(logs) + 1 - li])
    /\ li' = li + 1
    /\ UNCHANGED <<data, pc, error, hosts, queue, now, event, round, hi, ei,
                   up_endpoints, logs, last, requests, ups, started>>

\* health_check_runner, lines 133-134: print the next log
print_log ==
    /\ pc = "print"
    /\ li <= Len(logs)
    /\ out' = Append(out, logs[li])
    /\ li' = li + 1
    /\ UNCHANGED <<data, pc, error, hosts, queue, now, event, round, hi, ei,
                   up_endpoints, logs, last, requests, ups, started>>

\* health_check_runner returns to scheduler.run()
runner_return ==
    /\ pc = "print"
    /\ li > Len(logs)
    /\ pc' = "run"
    /\ UNCHANGED <<data, error, hosts, queue, now, event, round, hi, ei,
                   up_endpoints, logs, li, out, last, requests, ups, started>>

\* a termination that first prints the lines computed and not yet printed
terminate_flushing ==
    /\ pc \notin {"crashed", "exited", "terminated"}
    /\ pc' = "terminated"
    /\ error' = "KeyboardInterrupt"
    /\ queue' = <<>>
    /\ event' = NoEvent
    /\ hi' = 0
    /\ ei' = 0
    /\ up_endpoints' = 0
    /\ out' = out \o SubSeq(logs, Len(out) + 1, Len(logs))
    /\ logs' = <<>>
    /\ li' = 0
    /\ last' = NoProbe
    /\ UNCHANGED <<data, hosts, now, round, requests, ups, started>>

\* an external termination signal (KeyboardInterrupt) at any point: the
\* exception leaves scheduler.run() and main, and the frames of the runner
\* and of perform_health_check go with it; what was printed stays printed
terminate ==
    /\ pc \notin {"crashed", "exited", "terminated"}
    /\ pc' = "terminated"
    /\ error' = "KeyboardInterrupt"
    /\ queue' = <<>>
    /\ event' = NoEvent
    /\ hi' = 0
    /\ ei' = 0
    /\ up_endpoints' = 0
    /\ logs' = <<>>
    /\ li' = 0
    /\ last' = NoProbe
    /\ UNCHANGED <<data, hosts, now, round, out, requests, ups, started>>

Step ==
    \/ main_parse_file
    \/ main_run_scheduler
    \/ scheduler_run
    \/ health_check_runner
    \/ probe
    \/ summarize
    \/ print_log
    \/ runner_return

Next == Step \/ terminate

Spec == Init /\ [][Next]_vars

\* The process keeps executing unless it is signalled: every step but the
\* signal is taken when it stays possible.
FairSpec == Spec /\ WF_vars(Step)

\* Start-up alone: the model built from input lists up to MaxRecords.
InitBuild ==
    /\ data \in SeqsUpTo(RecordPool, MaxRecords)
    /\ pc = "main"
    /\ error = None
    /\ hosts = <<>>
    /\ queue = <<>>
    /\ now = 0
    /\ event = NoEvent
    /\ round = 0
    /\ hi = 0
    /\ ei = 0
    /\ up_endpoints = 0
    /\ logs = <<>>
    /\ li = 0
    /\ out = <<>>
    /\ last = NoProbe
    /\ requests = <<>>
    /\ ups = <<>>
    /\ started = 0

NextBuild == main_parse_file \/ main_run_scheduler

SpecBuild == InitBuild /\ [][NextBuild]_vars

\* perform_health_check called on one Host by itself: a Host object with n
\* endpoints, n = 0 included (Host.__init__ leaves the list empty).
HostOf(hostname, n) ==
    [hostname |-> hostname,
     endpoints |-> [i \in 1..n |-> from_dict(i, [name |-> "e1", url |-> Url(hostname, "/")])]]

\* the sizes tried: the small ones, and the largest
HostSizes == (0..4) \cup {MaxEndpoints}

InitHost ==
    /\ \E n \in HostSizes :
         /\ hosts = <<HostOf("a.com", n)>>
         /\ data = [i \in 1..n |-> [name |-> "e1", url |-> Url("a.com", "/")]]
         /\ requests = [i \in 1..n |-> 0]
    /\ ups = <<0>>
    /\ started = 0
    /\ pc = "check"
    /\ error = None
    /\ queue = <<>>
    /\ now = 0
    /\ event = NoEvent
    /\ round = 1
    /\ hi = 1
    /\ ei = 1
    /\ up_endpoints = 0
    /\ logs = <<>>
    /\ li = 1
    /\ out = <<>>
    /\ last = NoProbe

NextHost == probe \/ summarize

SpecHost == InitHost /\ [][NextHost]_vars

\* The scheduler around a Host so large that a round outlasts the interval:
\* MaxEndpoints endpoints whose probes take about TIMEOUT_IN_S each. The
\* start is the state the program is in when every probe so far has timed
\* out, the rounds before this one have run back to back, and the last
\* endpoint of round MaxRounds - 1 is about to be probed.
LongRound == MaxEndpoints * TIMEOUT_IN_MS

InitLong ==
    LET n == MaxEndpoints
        begun == (MaxRounds - 2) * LongRound
    IN  /\ hosts = <<HostOf("a.com", n)>>
        /\ data = [i \in 1..n |-> [name |-> "e1", url |-> Url("a.com", "/")]]
        /\ pc = "check"
        /\ error = None
        /\ round = MaxRounds - 1
        /\ started = begun
        /\ event = [time |-> IF MaxRounds = 2 THEN 0 ELSE begun - LongRound + DelayMs,
                     priority |-> 1]
        /\ queue = <<[time |-> begun + DelayMs, priority |-> 1]>>
        /\ now = begun + (n - 1) * TIMEOUT_IN_MS
        /\ hi = 1
        /\ ei = n
        /\ up_endpoints = 0
        /\ ups = <<0>>
        /\ requests = [i \in 1..n |-> IF i < n THEN 1 ELSE 0]
        /\ last = [idx |-> n - 1, server |-> Server("none", TIMEOUT_IN_MS + 1, 200),
                    up |-> FALSE]
        /\ logs = <<>>
        /\ li = 1
        /\ out = <<>>

NextLong ==
    \/ scheduler_run
    \/ health_check_runner
    \/ probe
    \/ summarize
    \/ print_log
    \/ runner_return

SpecLong == InitLong /\ [][NextLong]_vars

\* ================================================================== claims
SupportedMethods == {"GET", "POST", "PUT", "DELETE", "HEAD", "OPTIONS"}

\* the method an input record ends up with
RecordMethod(rec) == Upper(Get(rec, "method", "GET"))

\* what the specification calls a configuration error of the input
MissingField == \E i \in 1..Len(data) : ~HasKey(data[i], "name") \/ ~HasKey(data[i], "url")
UnsupportedMethod == \E i \in 1..Len(data) : RecordMethod(data[i]) \notin SupportedMethods

Stopped == pc \in {"crashed", "terminated"}

Abs(x) == IF x < 0 THEN -x ELSE x

\* the hundredths a printed percentage stands for
Hundredths(text) ==
    text.int * 100 + text.frac[1] * 10 + (IF Len(text.frac) = 2 THEN text.frac[2] ELSE 0)

\* round r has printed all its lines
RoundReported(r) == round = r /\ pc = "print" /\ li > Len(logs) /\ Len(out) = Len(hosts)

\* the server behaviours that are not a 2xx response in time
Failed(server) ==
    \/ server.fail # "none"
    \/ server.latency >= TIMEOUT_IN_MS
    \/ server.status < 200
    \/ server.status >= 300

\* the endpoint the loop of perform_health_check is about to probe
AtProbe == pc = "check" /\ ei <= Len(hosts[hi].endpoints)
Current == hosts[hi].endpoints[ei]

\* C1: once the scheduler runs, whatever the endpoints answer, rounds keep
\* coming and each one that returns has printed a line for every Host: the
\* process is always on its way to the next reported round (followed here up
\* to round MaxRounds) unless it is signalled; it ends by itself only on a
\* configuration error (a record without name or url, or a method outside
\* the six), and scheduler.run() never returns.
C1_KeepsReporting ==
    /\ [](pc = "crashed" =>
            \/ error = "KeyError" /\ MissingField
            \/ error = "Exception: Invalid HTTP method" /\ UnsupportedMethod)
    /\ [](pc # "exited")
    /\ []((pc \in {"run", "runner"} /\ round >= 1) => Len(out) = Len(hosts))
    /\ []<>(Stopped \/ (pc = "run" /\ round = MaxRounds))

\* a second round has printed its lines, every endpoint of its first Host
\* down
C1_Witness == RoundReported(2) /\ Len(out) >= 1 /\ Hundredths(out[1][3]) = 0

\* C2: a probe of an endpoint with a supported method never ends the round:
\* whatever the server does, is_up returns, a failure counts as down and
\* leaves the count of the endpoints probed before it as it was, the loop
\* goes on to the next endpoint, and a round that reaches its prints has
\* sent every endpoint its request.
C2_ProbeFailureAbsorbed ==
    /\ [][(AtProbe /\ Current.method \in SupportedMethods /\ pc' # "terminated") =>
            /\ pc' = "check"
            /\ error' = None
            /\ ei' = ei + 1
            /\ hi' = hi
            /\ logs' = logs
            /\ last'.idx = Current.idx
            /\ requests' = [requests EXCEPT ![Current.idx] = @ + 1]
            /\ Failed(last'.server) => ~last'.up
            /\ up_endpoints' = up_endpoints + (IF last'.up THEN 1 ELSE 0)]_vars
    /\ [](pc = "print" => \A i \in 1..Len(data) : requests[i] = 1)

\* the first endpoint of a host was down, the second was probed and is up
C2_Witness ==
    /\ pc = "check"
    /\ ei = 3
    /\ last.idx = 2
    /\ last.up
    /\ up_endpoints = 1

\* C3: a record whose method is outside the six is rejected while the model
\* is built: no Host list holding such an endpoint exists once start-up is
\* over, and is_up is never entered with such a method.
C3_UnsupportedMethodRejectedAtBuild ==
    /\ pc \in {"start", "run", "runner", "check", "print"} =>
         \A k \in 1..Len(hosts) : \A j \in 1..Len(hosts[k].endpoints) :
            hosts[k].endpoints[j].method \in SupportedMethods
    /\ AtProbe => Current.method \in SupportedMethods
    /\ error # "Exception: Invalid HTTP method"

\* C4: is_up returns True exactly when the response arrives before the
\* timeout and its status is in [200, 300).
C4_UpIffInTime2xx ==
    last.idx # 0 =>
        (last.up <=> /\ last.server.fail = "none"
                     /\ last.server.latency < TIMEOUT_IN_MS
                     /\ last.server.status >= 200
                     /\ last.server.status < 300)

\* a 299 in time was classified up
C4_Witness == last.idx # 0 /\ last.up /\ last.server.status = 299

\* perform_health_check is about to compute the percentage of a Host that
\* has endpoints
AtSummary ==
    /\ pc = "check"
    /\ ei > Len(hosts[hi].endpoints)
    /\ Len(hosts[hi].endpoints) >= 1

\* C5 as claimed: the percentage of the report is up_count * 100 /
\* total_count rounded to two fraction digits, a third digit of exactly 5
\* rounded up (1 up of 32 gives 3.13).
C5_RoundsHalfUp ==
    [][(AtSummary /\ pc' # "terminated") =>
         LET n == Len(hosts[hi].endpoints)
         IN  logs' = Append(logs, Summary(hosts[hi].hostname,
                                          (2 * up_endpoints * 10000 + n) \div (2 * n)))]_vars

\* C5 as amended: the percentage of the report is a hundredth nearest to
\* up_count * 100 / total_count, and when two hundredths are equally near
\* (the third fraction digit is exactly 5) it is the even one: 3 of 4 gives
\* 75.0, 1 of 3 gives 33.33, 1 of 32 gives 3.12.
C5_RoundsHalfEven ==
    [][(AtSummary /\ pc' # "terminated") =>
         LET n == Len(hosts[hi].endpoints)
             line == logs'[Len(logs')]
             h == Hundredths(line[3])
             gap == Abs(h * n - up_endpoints * 10000)
         IN  /\ Len(logs') = Len(logs) + 1
             /\ line = Summary(hosts[hi].hostname, h)
             /\ 2 * gap <= n
             /\ 2 * gap = n => h % 2 = 0
             /\ (up_endpoints = 3 /\ n = 4) => line[3] = [int |-> 75, frac |-> <<0>>]
             /\ (up_endpoints = 1 /\ n = 3) => line[3] = [int |-> 33, frac |-> <<3, 3>>]
             /\ (up_endpoints = 1 /\ n = 32) => line[3] = [int |-> 3, frac |-> <<1, 2>>]]_vars

\* a Host of 32 endpoints, one of them up, was reported at 3.12
C5_Witness ==
    /\ pc = "print"
    /\ Len(hosts[1].endpoints) = 32
    /\ Len(logs) = 1
    /\ logs[1][3] = [int |-> 3, frac |-> <<1, 2>>]

\* C6: perform_health_check on a Host without endpoints raises no division
\* error and returns a report with percentage 0.
C6_ZeroEndpointHostReported ==
    /\ error # "ZeroDivisionError"
    /\ (Len(hosts) = 1 /\ Len(hosts[1].endpoints) = 0 /\ pc # "check") =>
          logs = <<Summary(hosts[1].hostname, 0)>>

\* where endpoint i of the input sits in the Host list
Places(i) ==
    { kj \in (1..Len(hosts)) \X (1..MaxRecords + 1) :
        /\ kj[2] <= Len(hosts[kj[1]].endpoints)
        /\ hosts[kj[1]].endpoints[kj[2]].idx = i }

\* C7: parse_file partitions the endpoints by hostname: every endpoint is in
\* exactly one Host, that Host's hostname is the hostname of the endpoint's
\* URL, the Hosts hold nothing else, and no two Hosts share a hostname.
C7_PartitionByHostname ==
    pc = "start" =>
        /\ \A i \in 1..Len(data) :
              /\ Cardinality(Places(i)) = 1
              /\ \A kj \in Places(i) :
                    /\ hosts[kj[1]].hostname = Hostname(data[i]["url"])
                    /\ hosts[kj[1]].endpoints[kj[2]].url = data[i]["url"]
                    /\ hosts[kj[1]].endpoints[kj[2]].name = data[i]["name"]
        /\ \A k \in 1..Len(hosts) : \A j \in 1..Len(hosts[k].endpoints) :
              hosts[k].endpoints[j].idx \in 1..Len(data)
        /\ \A k1, k2 \in 1..Len(hosts) : k1 # k2 => hosts[k1].hostname # hosts[k2].hostname

\* hostnames a.com, b.com, a.com: the third endpoint joined the first Host
C7_Witness ==
    /\ pc = "start"
    /\ Len(data) = 3
    /\ Len(hosts) = 2
    /\ Len(hosts[1].endpoints) = 2
    /\ hosts[1].endpoints[2].idx = 3
    /\ hosts[2].endpoints[1].idx = 2

\* the first place in the input of an endpoint with this hostname, 0 if none
FirstSeen(hostname) ==
    LET at == { i \in 1..Len(data) : Hostname(data[i]["url"]) = hostname }
    IN  IF at = {} THEN 0 ELSE CHOOSE i \in at : \A j \in at : i <= j

InputHostnames == [i \in 1..Len(data) |-> Hostname(data[i]["url"])]

\* C8: the Hosts are in the order their hostnames first occur in the input,
\* the endpoints of a Host in their input order; hostnames a.com, a.com,
\* b.com give a.com with the first two endpoints, then b.com with the third.
C8_FirstSeenOrder ==
    pc = "start" =>
        /\ \A k1, k2 \in 1..Len(hosts) :
              k1 < k2 => /\ FirstSeen(hosts[k1].hostname) >= 1
                         /\ FirstSeen(hosts[k1].hostname) < FirstSeen(hosts[k2].hostname)
        /\ \A k \in 1..Len(hosts) : \A j1, j2 \in 1..Len(hosts[k].endpoints) :
              j1 < j2 => hosts[k].endpoints[j1].idx < hosts[k].endpoints[j2].idx
        /\ InputHostnames = <<"a.com", "a.com", "b.com">> =>
              /\ Len(hosts) = 2
              /\ hosts[1].hostname = "a.com"
              /\ [j \in 1..Len(hosts[1].endpoints) |-> hosts[1].endpoints[j].idx] = <<1, 2>>
              /\ hosts[2].hostname = "b.com"
              /\ [j \in 1..Len(hosts[2].endpoints) |-> hosts[2].endpoints[j].idx] = <<3>>

\* the model was built from hostnames a.com, a.com, b.com
C8_Witness == pc = "start" /\ InputHostnames = <<"a.com", "a.com", "b.com">>

\* C9: the first round fires at time 0 and round i is scheduled at i times
\* the interval from the start, however late the rounds before it began.
C9_RoundsOnTheGrid ==
    /\ pc = "runner" => event.time = round * DelayMs
    /\ pc \in {"check", "print"} =>
          /\ event.time = (round - 1) * DelayMs
          /\ queue # <<>>
          /\ Head(queue).time = round * DelayMs
    /\ (pc = "run" /\ queue # <<>>) => Head(queue).time = round * DelayMs

\* a report line of this Host: the fixed text around a percentage of 0 to
\* 100 with one or two fraction digits
WellFormed(line, hostname) ==
    /\ Len(line) = 4
    /\ line[1] = hostname
    /\ line[2] = " has "
    /\ line[4] = "% availability percentage"
    /\ line[3].int \in 0..100
    /\ Len(line[3].frac) \in {1, 2}
    /\ \A d \in 1..Len(line[3].frac) : line[3].frac[d] \in 0..9
    /\ Len(line[3].frac) = 2 => line[3].frac[2] # 0
    /\ Hundredths(line[3]) <= 10000

\* C10: what a round has printed is at every moment the lines of the first
\* Hosts of the list, one each and in the list's order, each of the form
\* "{hostname} has {percentage}% availability percentage"; a round that
\* completes has printed one for every Host, and the next round starts only
\* after that.
C10_OneLinePerHostInOrder ==
    /\ Len(out) <= Len(hosts)
    /\ \A k \in 1..Len(out) : WellFormed(out[k], hosts[k].hostname)
    /\ (pc = "print" /\ li > Len(logs)) => Len(out) = Len(hosts)
    /\ (pc \in {"run", "runner"} /\ round >= 1) => Len(out) = Len(hosts)
    /\ pc \in {"check"} => out = <<>>

\* a second round has printed the lines of two Hosts
C10_Witness == RoundReported(2) /\ Len(hosts) = 2 /\ Len(out) = 2

\* the line of the k-th Host computed from nothing but the fixed model and
\* the number of its endpoints that were up in the running round
ReportOf(k) ==
    Summary(hosts[k].hostname, Percentage(ups[k], Len(hosts[k].endpoints)))

\* C11: the lines of a round are a function of that round's endpoint
\* outcomes only: every line computed and every line printed is the one
\* determined by the Host and by how many of its endpoints were up in this
\* round, and the counter a Host's check works with holds this round's ups
\* of this Host and nothing from an earlier Host or round; so two rounds with
\* the same outcomes print the same lines.
C11_ReportsFromThisRoundOnly ==
    /\ pc = "check" => up_endpoints = ups[hi]
    /\ \A k \in 1..Len(logs) : logs[k] = ReportOf(k)
    /\ \A k \in 1..Len(out) : out[k] = ReportOf(k)

\* a second round has reported a Host of two endpoints of which one was up
\* in this round
C11_Witness ==
    /\ RoundReported(2)
    /\ Len(hosts) = 1
    /\ Len(hosts[1].endpoints) = 2
    /\ ups = <<1>>
    /\ Hundredths(out[1][3]) = 5000

\* an input record whose url has no hostname to parse
NoHostname ==
    \E i \in 1..Len(data) : HasKey(data[i], "url") /\ Hostname(data[i]["url"]) = None

\* C12: an input with a record that lacks name or url, or whose url has no
\* parseable hostname, ends at startup with an error: no Host list is
\* produced and no round runs; and no Host without a hostname is ever built
\* or reported.
C12_MalformedRecordFailsStartup ==
    /\ (MissingField \/ NoHostname) =>
          /\ pc \in {"main", "crashed", "terminated"}
          /\ hosts = <<>>
          /\ round = 0
    /\ \A k \in 1..Len(hosts) : hosts[k].hostname # None
    /\ \A k \in 1..Len(out) : out[k][1] # None

\* C13: the probes of a round overlap: when the result of one probe is in
\* and the Host has a further endpoint to probe, the request to that
\* endpoint is already out, so that more than one probe is in flight and the
\* round does not wait for a probe to finish before it starts the next.
C13_ProbesOverlap ==
    (AtProbe /\ last.idx # 0) => requests[Current.idx] >= 1

\* C14: with rounds that outlast the interval, the queue never holds more
\* than one round event and holds exactly one while a round runs and while
\* the scheduler waits; a round begins only after the round before it has
\* returned; and an event that is due when the scheduler looks at the queue
\* is started by the very next step, at that same time, not dropped and not
\* slept on.
C14_LateRoundNeitherSkippedNorStacked ==
    /\ [](Len(queue) <= 1)
    /\ [](pc \in {"check", "print", "run"} => Len(queue) = 1)
    /\ [][round' # round => (pc = "runner" /\ li > Len(logs))]_vars
    /\ [][(pc = "run" /\ queue # <<>> /\ Head(queue).time <= now /\ pc' # "terminated")
             => (pc' = "runner" /\ event' = Head(queue) /\ queue' = <<>> /\ now' = now)]_vars

\* the last round has just begun, later than it was due, at the moment the
\* round before it had printed its lines
C14_Witness ==
    /\ pc = "check"
    /\ round = MaxRounds
    /\ started = now
    /\ started > event.time
    /\ started >= (MaxRounds - 1) * DelayMs + TIMEOUT_IN_MS
    /\ Head(queue).time = started + DelayMs

\* every endpoint of the k-th Host has been probed once in the running round
HostProbed(k) ==
    \A j \in 1..Len(hosts[k].endpoints) : requests[hosts[k].endpoints[j].idx] = 1

C16_IncompleteRoundNotReported ==
    /\ [][(~Stopped /\ Stopped') =>
            /\ out' = out
            /\ pc = "check" => out = <<>>
            /\ pc = "print" =>
                  /\ Len(logs) = Len(hosts)
                  /\ out = SubSeq(logs, 1, li - 1)]_vars
    /\ [](Stopped => \A k \in 1..Len(out) : out[k] = ReportOf(k))
    /\ []((Stopped /\ out # <<>>) => \A k \in 1..Len(hosts) : HostProbed(k))

\* the process was terminated after the first of the two lines of a round
C16_Witness == pc = "terminated" /\ round >= 1 /\ Len(hosts) = 2 /\ Len(out) = 1

\* C17: no endpoint is probed twice in a round: a probe sends exactly one
\* request to exactly one endpoint and moves on to the next endpoint whatever
\* the result, a result that is down included; so no endpoint ever has more
\* than one request in a round, and a round that has completed has sent
\* exactly one to each.
C17_NoRetries ==
    /\ [][requests' # requests /\ pc = "check" =>
            /\ AtProbe
            /\ requests[Current.idx] = 0
            /\ requests' = [requests EXCEPT ![Current.idx] = 1]
            /\ ei' = ei + 1
            /\ last'.idx = Current.idx
            /\ up_endpoints' = up_endpoints + (IF last'.up THEN 1 ELSE 0)]_vars
    /\ [](\A i \in 1..Len(requests) : requests[i] <= 1)
    /\ []((pc = "print" \/ (pc = "run" /\ round >= 1)) =>
             \A i \in 1..Len(requests) : requests[i] = 1)

\* a second round has completed in which the endpoint of the first Host was
\* down and was left at its one request while the second Host was probed
C17_Witness ==
    /\ RoundReported(2)
    /\ Len(requests) = 2
    /\ ups = <<0, 1>>
    /\ requests = <<1, 1>>

\* C18: once main has built the model, nothing changes it: the input, the
\* Host list, every Host's hostname and endpoint sequence and every field of
\* every Endpoint stay what parse_file produced, through every probe, every
\* round and a stop; the steps of a round change only the scheduler's queue
\* and event, the clock, the round's working values and the output.
C18_RoundsLeaveModelUnchanged ==
    /\ [](pc \in {"start", "run", "runner", "check", "print"} \/ (Stopped /\ round >= 1) =>
             hosts = parse_file(data))
    /\ [][pc # "main" => (hosts' = hosts /\ data' = data)]_vars

\* a second round has been reported over two Hosts, one of them with an
\* endpoint built with a method, and the model is what it was built as
C18_Witness ==
    /\ RoundReported(2)
    /\ Len(hosts) = 2
    /\ hosts[1].endpoints[1].method = "POST"
    /\ hosts = parse_file(data)

\* C19: every Host that parse_file returns owns at least one endpoint, so
\* perform_health_check never divides by zero in the running program; and an
\* input with no records gives no Hosts and rounds that compute and print no
\* line, without an error.
C19_NoEmptyHostFromParseFile ==
    /\ \A k \in 1..Len(hosts) : Len(hosts[k].endpoints) >= 1
    /\ error # "ZeroDivisionError"
    /\ (data = <<>> /\ pc # "main") =>
          /\ hosts = <<>>
          /\ logs = <<>>
          /\ out = <<>>
          /\ pc # "crashed"

\* the second round over an input without records has ended, with nothing
\* printed
C19_Witness == data = <<>> /\ hosts = <<>> /\ RoundReported(2) /\ out = <<>>

\* C20: a round never begins before the event that starts it is due, which
\* is HEALTH_CHECK_DELAY after the round before it began: two consecutive
\* rounds begin at least the interval apart, whatever the probes took, and
\* round i of the run (from 0) begins no earlier than i intervals after the
\* first; a round can be late, never early.
C20_RoundsAtLeastIntervalApart ==
    /\ [][round' # round =>
            /\ round' = round + 1
            /\ started' = now
            /\ now >= event.time
            /\ round >= 1 => now >= started + DelayMs
            /\ now >= round * DelayMs]_vars
    /\ [](round >= 1 => started >= (round - 1) * DelayMs)

\* the second round has just begun, later than one interval after the first
C20_Witness ==
    /\ pc = "check"
    /\ round = 2
    /\ started = now
    /\ started > DelayMs
    /\ event.time = DelayMs

====
